---- MODULE Spec2Model ----
(***************************************************************************)
(* Model of lcapy/fourier.py: the rule-based bilateral Fourier transform   *)
(* (fourier_transform, inverse_fourier_transform) and its process-wide     *)
(* memo fourier_cache.                                                     *)
(*                                                                         *)
(* Symbolic expressions are modelled structurally.  A sum is a sequence of *)
(* terms in as_ordered_terms() order; a term is a rational coefficient and *)
(* a bag of factors (the count is the power).  SymPy's automatic           *)
(* canonicalisation is modelled where the code relies on it: equal terms   *)
(* of a sum merge, a product holds at most one exp() factor (exponents     *)
(* add), a zero coefficient drops a term.                                  *)
(***************************************************************************)
EXTENDS Integers, Sequences, FiniteSets, TLC

VARIABLES fourier_cache, sympy, pc, inp, out, evals, touched, ncalls, th

vars == <<fourier_cache, sympy, pc, inp, out, evals, touched, ncalls, th>>

(***************************************************************************)
(* Rational numbers <<n, d>> with d > 0, in lowest terms.                  *)
(***************************************************************************)
Abs(n) == IF n < 0 THEN -n ELSE n

RECURSIVE GCD(_, _)
GCD(m, n) == IF n = 0 THEN m ELSE GCD(n, m % n)

Rat(n, d) ==
    LET g == GCD(Abs(n), Abs(d))
        s == IF d < 0 THEN -1 ELSE 1
    IN  <<(s * n) \div g, (s * d) \div g>>

RatAdd(p, q) == Rat(p[1] * q[2] + q[1] * p[2], p[2] * q[2])

RatMul(p, q) == Rat(p[1] * q[1], p[2] * q[2])

RZero == <<0, 1>>

ROne == <<1, 1>>

(***************************************************************************)
(* Bags of variable-free factors (a product of constants with powers).     *)
(***************************************************************************)
NoConst == [x \in {} |-> 0]

BagOf(S) == [x \in S |-> 1]

BagMul(b1, b2) ==
    [x \in (DOMAIN b1) \cup (DOMAIN b2) |->
        (IF x \in DOMAIN b1 THEN b1[x] ELSE 0) + (IF x \in DOMAIN b2 THEN b2[x] ELSE 0)]

(***************************************************************************)
(* Factors.  A product is a bag of factors: the count is the power.        *)
(*   Sym(n)            the symbol n (a parameter such as a)                *)
(*   Var(x)            the variable x                                      *)
(*   Exp(x, q, re, im) exp(-q*a*x**2 + (re*a + im*I*2*pi*a)*x)             *)
(*   Cos(x, c)         cos(2*pi*c*a*x)                                     *)
(*   Step(x)           Heaviside(x)                                        *)
(*   Pole(x)           1/(a + I*2*pi*x)                                    *)
(*   Undef(n, arg)     the abstract function n applied to arg              *)
(*   Recip(u)          1/u for an abstract function application u          *)
(* An argument Arg(x, scale, deg, shift, more) is scale*x**deg + shift,    *)
(* plus one more additive term when more is TRUE; scale and shift are      *)
(* integers.  ArgPar(x, scale, shift) is scale*a*x + shift, the scale      *)
(* holding the parameter a.  A function name is a sequence of characters.  *)
(***************************************************************************)
Sym(n) == [k |-> "sym", s |-> n]

Var(x) == [k |-> "var", v |-> x]

Exp(x, q, re, im) == [k |-> "exp", v |-> x, q |-> q, re |-> re, im |-> im]

Cos(x, c) == [k |-> "cos", v |-> x, c |-> c]

Step(x) == [k |-> "step", v |-> x]

Pole(x) == [k |-> "pole", v |-> x]

Arg(x, scale, deg, shift, more) ==
    [v |-> x, scale |-> scale, deg |-> deg, shift |-> shift, more |-> more,
     par |-> FALSE]

ArgPar(x, scale, shift) ==
    [v |-> x, scale |-> scale, deg |-> 1, shift |-> shift, more |-> FALSE, par |-> TRUE]

Undef(n, arg) == [k |-> "undef", name |-> n, arg |-> arg]

Recip(u) == [k |-> "recip", of |-> u]

\* The plain argument x of v(x).
Plain(x) == Arg(x, 1, 1, 0, FALSE)

\* factor.has(x)
FactorHas(fac, x) ==
    CASE fac.k = "sym" -> FALSE
      [] fac.k = "undef" -> fac.arg.v = x
      [] fac.k = "recip" -> fac.of.arg.v = x
      [] OTHER -> fac.v = x

\* factor.has(sym.function.AppliedUndef)
FactorHasUndef(fac) == fac.k \in {"undef", "recip"}

(***************************************************************************)
(* Terms and sums.  A term is coef * product(facs).                        *)
(***************************************************************************)
Term(coef, facs) == [coef |-> coef, facs |-> facs]

ZeroTerm == Term(RZero, NoConst)

\* expr.has(x) for a product
BagHas(b, x) == \E fac \in DOMAIN b : FactorHas(fac, x)

\* expr.has(sym.function.AppliedUndef) for a product
BagHasUndef(b) == \E fac \in DOMAIN b : FactorHasUndef(fac)

\* isinstance(expr, sym.function.AppliedUndef) for a product with coefficient 1
BagIsAppliedUndef(b) ==
    /\ Cardinality(DOMAIN b) = 1
    /\ \A fac \in DOMAIN b : fac.k = "undef" /\ b[fac] = 1

Restrict(b, S) == [x \in (DOMAIN b) \cap S |-> b[x]]

\* SymPy's Add: equal products merge their coefficients, zero terms vanish;
\* the first occurrence keeps its place.
RECURSIVE AddTerm(_, _)
AddTerm(s, term) ==
    IF term.coef = RZero THEN s
    ELSE IF s = <<>> THEN <<term>>
    ELSE IF Head(s).facs = term.facs
         THEN LET c == RatAdd(Head(s).coef, term.coef)
              IN  IF c = RZero THEN Tail(s)
                  ELSE <<[Head(s) EXCEPT !.coef = c]>> \o Tail(s)
         ELSE <<Head(s)>> \o AddTerm(Tail(s), term)

RECURSIVE AddAll(_, _)
AddAll(s, ts) == IF ts = <<>> THEN s ELSE AddAll(AddTerm(s, Head(ts)), Tail(ts))

Sum(ts) == AddAll(<<>>, ts)

\* a * expr for a variable-free product a (a bag) and a sum expr
ScaleExpr(a, expr) ==
    Sum([i \in 1..Len(expr) |-> Term(expr[i].coef, BagMul(a, expr[i].facs))])

(***************************************************************************)
(* expr.rewrite(sym.exp) followed by expr.expand(): every cosine becomes   *)
(* exp(I*th)/2 + exp(-I*th)/2, the product is multiplied out, and the      *)
(* exponentials of one product merge into one (exponents add; exp(0) = 1). *)
(***************************************************************************)
MulExp(b, x, im) ==
    LET old == {e \in DOMAIN b : e.k = "exp" /\ e.v = x}
        base == Restrict(b, (DOMAIN b) \ old)
    IN  IF old = {} THEN BagMul(b, BagOf({Exp(x, 0, 0, im)}))
        ELSE LET e == CHOOSE e \in old : TRUE
                 m == Exp(x, e.q, e.re, e.im + im)
             IN  IF m.q = 0 /\ m.re = 0 /\ m.im = 0 THEN base
                 ELSE BagMul(base, BagOf({m}))

RECURSIVE RewriteTerm(_)
RewriteTerm(term) ==
    LET cs == {c \in DOMAIN term.facs : c.k = "cos"}
    IN  IF cs = {} THEN <<term>>
        ELSE LET c == CHOOSE c \in cs : TRUE
                 n == term.facs[c]
                 less == IF n = 1 THEN Restrict(term.facs, (DOMAIN term.facs) \ {c})
                         ELSE [term.facs EXCEPT ![c] = n - 1]
                 half == RatMul(term.coef, Rat(1, 2))
             IN  RewriteTerm(Term(half, MulExp(less, c.v, c.c)))
                 \o RewriteTerm(Term(half, MulExp(less, c.v, -c.c)))

RECURSIVE RewriteAll(_)
RewriteAll(expr) ==
    IF expr = <<>> THEN <<>> ELSE RewriteTerm(Head(expr)) \o RewriteAll(Tail(expr))

\* expr.has(sym.cos) or expr.has(sym.sin)
HasCos(expr) == \E i \in 1..Len(expr) : \E c \in DOMAIN expr[i].facs : c.k = "cos"

\* expr.expand().as_ordered_terms(); the terms of zero are [0]
OrderedTerms(expr) == IF Sum(expr) = <<>> THEN <<ZeroTerm>> ELSE Sum(expr)

(***************************************************************************)
(* Results.  The transform of one term is c * product(cs) * at, with at    *)
(* one of the atoms below; pt is the point the atom is evaluated at: the   *)
(* variable v minus the dummies listed in sub.                             *)
(*   Delta(n, sgn, re, im, pt)  (I*2*pi)**n * DiracDelta(sgn*pt - shift, n)*)
(*                              with shift = im*a + re*a/(I*2*pi)          *)
(*   Decay(sgn, pt)             exp(a*sf)*Heaviside(-sf), sf = sgn*pt      *)
(*   Func(n, sc, sh, pt)        n(pt/sc)/|sc| [* exp(2j*pi*pt*sh/sc)]      *)
(*   Closed(b, sgn, pt)         the solver's closed form for product b at  *)
(*                              sgn*pt                                     *)
(*   Integral(d, l, r)          Integral(l*r, (d, -oo, oo))                *)
(* A result (a sum) is a function from [cs, at] to a nonzero rational.     *)
(***************************************************************************)
Pt(x) == [v |-> x, sub |-> <<>>]

Delta(n, sgn, re, im, pt) ==
    [op |-> "DiracDelta", n |-> n, sgn |-> sgn, re |-> re, im |-> im, pt |-> pt]

Decay(sgn, pt) == [op |-> "ExpHeaviside", sgn |-> sgn, pt |-> pt]

Func(n, sc, sh, pt) == [op |-> "Func", name |-> n, scale |-> sc, shift |-> sh, pt |-> pt]

Closed(b, sgn, pt) == [op |-> "Closed", of |-> b, sgn |-> sgn, pt |-> pt]

Integral(d, l, r) == [op |-> "Integral", d |-> d, l |-> l, r |-> r]

TR(c, cs, at) == [c |-> c, cs |-> cs, at |-> at]

Ok(v) == [ok |-> TRUE, val |-> v]

Err(exc, msg, of) == [ok |-> FALSE, exc |-> exc, msg |-> msg, of |-> of]

\* result * const
TRMul(tr, coef, cs) == TR(RatMul(tr.c, coef), BagMul(tr.cs, cs), tr.at)

RZeroSum == [x \in {} |-> RZero]

\* result += term result
RAdd(R, tr) ==
    LET core == [cs |-> tr.cs, at |-> tr.at]
    IN  IF tr.c = RZero THEN R
        ELSE IF core \in DOMAIN R
             THEN LET c == RatAdd(R[core], tr.c)
                  IN  IF c = RZero THEN [x \in (DOMAIN R) \ {core} |-> R[x]]
                      ELSE [R EXCEPT ![core] = c]
             ELSE [x \in (DOMAIN R) \cup {core} |-> IF x = core THEN tr.c ELSE R[x]]

\* the sum of two results
RECURSIVE RPlus(_, _)
RPlus(R1, R2) ==
    IF DOMAIN R2 = {} THEN R1
    ELSE LET core == CHOOSE x \in DOMAIN R2 : TRUE
         IN  RPlus(RAdd(R1, TR(R2[core], core.cs, core.at)),
                   [x \in (DOMAIN R2) \ {core} |-> R2[x]])

\* a * result for a variable-free term a
RECURSIVE RScaleInto(_, _, _)
RScaleInto(acc, a, R) ==
    IF DOMAIN R = {} THEN acc
    ELSE LET x == CHOOSE x \in DOMAIN R : TRUE
         IN  RScaleInto(RAdd(acc, TR(RatMul(a.coef, R[x]), BagMul(a.facs, x.cs), x.at)),
                        a, [y \in (DOMAIN R) \ {x} |-> R[y]])

RScale(a, R) == RScaleInto(RZeroSum, a, R)

\* at.subs(f, f - nu) when minus, at.subs(f, nu) otherwise
RECURSIVE Subs(_, _, _, _)
Subs(at, f, nu, minus) ==
    IF at.op = "Integral"
    THEN Integral(at.d, TR(at.l.c, at.l.cs, Subs(at.l.at, f, nu, minus)),
                        TR(at.r.c, at.r.cs, Subs(at.r.at, f, nu, minus)))
    ELSE IF at.pt.v # f THEN at
    ELSE IF minus THEN [at EXCEPT !.pt.sub = Append(@, nu)]
    ELSE [at EXCEPT !.pt.v = nu]

\* the number of Integral nodes of an atom
RECURSIVE NIntegrals(_)
NIntegrals(at) ==
    IF at.op = "Integral" THEN 1 + NIntegrals(at.l.at) + NIntegrals(at.r.at) ELSE 0

\* the integration variables of an atom, outermost first
RECURSIVE Dummies(_)
Dummies(at) ==
    IF at.op = "Integral" THEN <<at.d>> \o Dummies(at.l.at) \o Dummies(at.r.at) ELSE <<>>

(***************************************************************************)
(* Function names: name[0].upper() + name[1:], name[0].lower() + name[1:]. *)
(***************************************************************************)
LowerChars == <<"v", "y", "w">>

UpperChars == <<"V", "Y", "W">>

Upper(ch) ==
    IF \E i \in 1..Len(LowerChars) : LowerChars[i] = ch
    THEN UpperChars[CHOOSE i \in 1..Len(LowerChars) : LowerChars[i] = ch]
    ELSE ch

Lower(ch) ==
    IF \E i \in 1..Len(UpperChars) : UpperChars[i] = ch
    THEN LowerChars[CHOOSE i \in 1..Len(UpperChars) : UpperChars[i] = ch]
    ELSE ch

Rename(name, inverse) ==
    <<IF inverse THEN Lower(Head(name)) ELSE Upper(Head(name))>> \o Tail(name)

(***************************************************************************)
(* factor_const(expr, t): the product of the factors without t, and the    *)
(* product of the factors with t.                                          *)
(***************************************************************************)
factor_const(term, t) ==
    [const |-> Term(term.coef,
                    Restrict(term.facs, {x \in DOMAIN term.facs : ~FactorHas(x, t)})),
     rest |-> Restrict(term.facs, {x \in DOMAIN term.facs : FactorHas(x, t)})]

(***************************************************************************)
(* scale_shift(expr, t) for the argument of an abstract function.  The     *)
(* scale is terms[0] / t: the coefficient c times t**tpow, times the       *)
(* parameter a when par.                                                   *)
(***************************************************************************)
\* The argument as an expression (for messages).
ArgExpr(arg) ==
    <<Term(Rat(arg.scale, 1),
           BagMul([x \in {Var(arg.v)} |-> arg.deg],
                  IF arg.par THEN BagOf({Sym("a")}) ELSE NoConst))>>
    \o (IF arg.shift # 0 THEN <<Term(Rat(arg.shift, 1), NoConst)>> ELSE <<>>)
    \o (IF arg.more THEN <<Term(ROne, BagOf({Sym("b")}))>> ELSE <<>>)

\* len(expr.as_ordered_terms())
ArgTerms(arg) == 1 + (IF arg.shift # 0 THEN 1 ELSE 0) + (IF arg.more THEN 1 ELSE 0)

ScaleOf(arg) == [c |-> arg.scale, tpow |-> arg.deg - 1, par |-> arg.par]

\* scale.is_constant(): no free symbol, the variable or a parameter
IsConstant(scale) == scale.tpow = 0 /\ ~scale.par

scale_shift(arg, t) ==
    IF arg.v # t THEN Err("ValueError", "Expression does not contain", ArgExpr(arg))
    ELSE IF ArgTerms(arg) > 2 THEN Err("ValueError", "Expression has too many terms", ArgExpr(arg))
    ELSE IF ArgTerms(arg) = 1 THEN Ok([scale |-> ScaleOf(arg), shift |-> 0])
    ELSE IF ~IsConstant(ScaleOf(arg))
         THEN Err("ValueError", "Expression not a scale and shift", ArgExpr(arg))
    ELSE Ok([scale |-> ScaleOf(arg), shift |-> arg.shift])

(***************************************************************************)
(* fourier_sympy(expr, t, f): SymPy's fourier_transform is a collaborator. *)
(* The variable sympy records, per class of integrand, what it answers: a  *)
(* closed form, an unevaluated FourierTransform object, or zero.  A closed *)
(* form is linear in the variable-free factor of the integrand.            *)
(***************************************************************************)
SolverClasses == {"exp", "alg"}

SolverAnswers == {"closed", "uneval", "zero"}

SolverClass(rest) == IF \E x \in DOMAIN rest : x.k = "exp" THEN "exp" ELSE "alg"

\* (the solver's answer returned without the two checks)
fourier_sympy_unchecked(oracle, term, t, sgn, f) ==
    Ok(TR(factor_const(term, t).const.coef, factor_const(term, t).const.facs,
          Closed(factor_const(term, t).rest, sgn, Pt(f))))

\* lines 63-71
fourier_sympy(oracle, term, t, sgn, f) ==
    LET fc == factor_const(term, t)
        answer == oracle[SolverClass(fc.rest)]
    IN  IF term.coef # RZero /\ answer = "zero"
        THEN Err("ValueError", "Could not compute Fourier transform for", <<term>>)
        ELSE IF answer = "uneval"
        THEN Err("ValueError", "Could not compute Fourier transform for", <<term>>)
        ELSE Ok(TR(fc.const.coef, fc.const.facs, Closed(fc.rest, sgn, Pt(f))))

(***************************************************************************)
(* fourier_func(expr, t, f, inverse): one abstract function application.   *)
(***************************************************************************)
fourier_func(rest, t, f, inverse) ==
    IF ~BagIsAppliedUndef(rest) THEN Err("ValueError", "Expecting function for", <<Term(ROne, rest)>>)
    ELSE LET expr == CHOOSE x \in DOMAIN rest : TRUE
             ss == scale_shift(expr.arg, t)
         IN  IF ~ss.ok THEN ss
             ELSE LET shift == IF ss.val.shift # 0 /\ inverse
                               THEN -ss.val.shift ELSE ss.val.shift
                  IN  Ok(TR(ROne, NoConst,
                            Func(Rename(expr.name, inverse), ss.val.scale, shift, Pt(f))))

(***************************************************************************)
(* fourier_function and fourier_term (mutually recursive).                 *)
(***************************************************************************)
\* The abstract function applications among the factors, in
\* as_ordered_factors() order (by name).
NameRank(name) ==
    LET ch == Head(name)
    IN  IF \E i \in 1..Len(UpperChars) : UpperChars[i] = ch
        THEN CHOOSE i \in 1..Len(UpperChars) : UpperChars[i] = ch
        ELSE Len(UpperChars) + (CHOOSE i \in 1..Len(LowerChars) : LowerChars[i] = ch)

RECURSIVE Ordered(_)
Ordered(S) ==
    IF S = {} THEN <<>>
    ELSE LET x == CHOOSE x \in S : \A y \in S : NameRank(x.name) <= NameRank(y.name)
         IN  <<x>> \o Ordered(S \ {x})

\* (one dummy variable for every convolution)
DummyReused(inverse, m) == IF inverse THEN "tau" ELSE "nu"

\* the dummy variable of the m-th convolution (m = 0, 1, ...)
Dummy(inverse, m) ==
    LET dummy == IF inverse THEN "tau" ELSE "nu"
    IN  IF m = 0 THEN dummy ELSE dummy \o "_" \o ToString(m)

RECURSIVE fourier_term(_, _, _, _, _)
RECURSIVE fourier_function(_, _, _, _, _)
RECURSIVE Convolve(_, _, _, _, _, _, _, _)

\* lines 144-151: the loop over exprs[1:], result being the running result
Convolve(oracle, result, exprs, m, t, f, inverse, n) ==
    IF m >= n - 1 THEN Ok(result)
    ELSE LET nu == Dummy(inverse, m)
             expr2 == fourier_term(oracle, Term(ROne, exprs[m + 2]), t, f, inverse)
         IN  IF ~expr2.ok THEN expr2
             ELSE Convolve(oracle,
                           TR(ROne, NoConst,
                              Integral(nu,
                                       TR(result.c, result.cs, Subs(result.at, f, nu, TRUE)),
                                       TR(expr2.val.c, expr2.val.cs,
                                          Subs(expr2.val.at, f, nu, FALSE)))),
                           exprs, m + 1, t, f, inverse, n)

fourier_function(oracle, term, t, f, inverse) ==
    IF ~BagHasUndef(term.facs)
    THEN Err("ValueError", "Could not compute Fourier transform for", <<term>>)
    ELSE
    LET fc == factor_const(term, t)
        expr == fc.rest
        applied == {x \in DOMAIN expr : x.k = "undef" /\ expr[x] = 1}
        weird == {x \in applied : x.arg # Plain(t)}
        rest == Restrict(expr, (DOMAIN expr) \ applied)
        exprs == [i \in 1..Cardinality(applied) |-> BagOf({Ordered(applied)[i]})]
                 \o (IF BagHas(rest, t) THEN <<rest>> ELSE <<>>)
    IN  IF BagIsAppliedUndef(expr)
        THEN LET r == fourier_func(expr, t, f, inverse)
             IN  IF r.ok THEN Ok(TRMul(r.val, fc.const.coef, fc.const.facs)) ELSE r
        ELSE IF weird # {}
        THEN Err("ValueError", "Weird function not of",
                 <<Term(ROne, BagOf({Ordered(weird)[1]}))>>)
        ELSE IF BagHasUndef(rest)
        THEN Err("ValueError", "Cannot compute Fourier transform of", <<Term(ROne, rest)>>)
        ELSE IF exprs = <<>>
        THEN Err("IndexError", "list index out of range", <<>>)
        ELSE LET first == fourier_term(oracle, Term(ROne, exprs[1]), t, f, inverse)
             IN  IF ~first.ok THEN first
                 ELSE LET r == Convolve(oracle, first.val, exprs, 0, t, f, inverse,
                                        Len(exprs))
                      IN  IF r.ok THEN Ok(TRMul(r.val, fc.const.coef, fc.const.facs))
                          ELSE r

fourier_term(oracle, term, t, f, inverse) ==
    IF BagHasUndef(term.facs) THEN fourier_function(oracle, term, t, f, inverse)
    ELSE
    LET sgn == IF inverse THEN -1 ELSE 1
        fc == factor_const(term, t)
        const == fc.const
        exps == Restrict(fc.rest, {x \in DOMAIN fc.rest : x.k = "exp"})
        other == Restrict(fc.rest, {x \in DOMAIN fc.rest : x.k # "exp"})
    IN  IF ~BagHas(term.facs, t)
        THEN Ok(TR(term.coef, term.facs, Delta(0, 1, 0, 0, Pt(f))))
        ELSE IF other # NoConst /\ exps = NoConst
        THEN IF other = [x \in {Var(t)} |-> 1]
             THEN Ok(TR(const.coef, const.facs, Delta(1, 1, 0, 0, Pt(f))))
             ELSE IF other = [x \in {Var(t)} |-> 2]
             THEN Ok(TR(const.coef, const.facs, Delta(2, 1, 0, 0, Pt(f))))
             ELSE IF other = [x \in {Pole(t)} |-> 1]
             THEN Ok(TR(const.coef, const.facs, Decay(sgn, Pt(f))))
             ELSE fourier_sympy(oracle, term, t, sgn, f)
        ELSE IF exps = NoConst
        THEN Err("IndexError", "tuple index out of range", <<>>)
        ELSE LET e == CHOOSE x \in DOMAIN exps : TRUE
             IN  IF e.q # 0 THEN fourier_sympy(oracle, term, t, sgn, f)
                 ELSE IF e.im # 0
                 THEN Ok(TR(const.coef, const.facs, Delta(0, sgn, e.re, e.im, Pt(f))))
                 ELSE fourier_sympy(oracle, term, t, sgn, f)

(***************************************************************************)
(* fourier_transform(expr, t, f, inverse): the cache and the orchestrator. *)
(***************************************************************************)
\* (a key that leaves the direction flag out)
KeyWithoutFlag(expr, t, f, inverse) == [expr |-> expr, t |-> t, f |-> f, inverse |-> FALSE]

\* key = (expr, t, f, inverse)
Key(expr, t, f, inverse) == [expr |-> expr, t |-> t, f |-> f, inverse |-> inverse]

\* (a lookup that never finds the key)
CacheNever(cache, key) == FALSE

\* key in fourier_cache
CacheHas(cache, key) == key \in DOMAIN cache

\* (an insert that evicts every other entry)
CacheReplace(cache, key, result) == [k \in {key} |-> result]

\* fourier_cache[key] = result
CachePut(cache, key, result) ==
    [k \in (DOMAIN cache) \cup {key} |-> IF k = key THEN result ELSE cache[k]]

\* lines 246-250: the loop over the terms; n counts the calls of fourier_term.
\* SumStep adds the outcome r of term i, or turns its ValueError into the
\* failure of the whole call.
RECURSIVE SumTerms(_, _, _, _, _, _, _, _)
RECURSIVE SumStep(_, _, _, _, _, _, _, _, _)
SumStep(oracle, terms, i, result, t, f, inverse, orig_expr, r) ==
    IF r.ok
    THEN SumTerms(oracle, terms, i + 1, RAdd(result, r.val), t, f, inverse, orig_expr)
    ELSE IF r.exc = "ValueError"
    THEN [ret |-> Err("ValueError", "Could not compute Fourier transform for", orig_expr),
          n |-> i]
    ELSE [ret |-> r, n |-> i]

SumTerms(oracle, terms, i, result, t, f, inverse, orig_expr) ==
    IF i > Len(terms) THEN [ret |-> Ok(result), n |-> i - 1]
    ELSE SumStep(oracle, terms, i, result, t, f, inverse, orig_expr,
                 fourier_term(oracle, terms[i], t, f, inverse))

\* lines 228-250: the computation on a cache miss
Compute(oracle, expr, t0, f0, inverse) ==
    LET t == IF inverse THEN f0 ELSE t0
        f == IF inverse THEN t0 ELSE f0
        orig_expr == expr
        rewritten == IF HasCos(expr) THEN RewriteAll(expr) ELSE expr
        terms == OrderedTerms(rewritten)
    IN  SumTerms(oracle, terms, 1, RZeroSum, t, f, inverse, orig_expr)

\* lines 225-226: the cached result is returned
Hit(cache, key) ==
    [ret |-> Ok(cache[key]), cache |-> cache, n |-> 0, read |-> {key}, written |-> {}]

\* (a failure leaves an empty result under the key)
MissMarksFailure(cache, key, c) ==
    [ret |-> c.ret,
     cache |-> CachePut(cache, key, IF c.ret.ok THEN c.ret.val ELSE RZeroSum),
     n |-> c.n, read |-> {key}, written |-> {key}]

\* lines 252-253 after the computation c: a result is stored and returned,
\* a failure leaves the cache alone
Miss(cache, key, c) ==
    IF c.ret.ok
    THEN [ret |-> c.ret, cache |-> CachePut(cache, key, c.ret.val), n |-> c.n,
          read |-> {key}, written |-> {key}]
    ELSE [ret |-> c.ret, cache |-> cache, n |-> c.n, read |-> {key}, written |-> {}]

\* The whole call: the outcome, the cache after it, the number of rule
\* evaluations, the cache keys read and written.
fourier_transform(cache, oracle, expr, t, f, inverse) ==
    IF CacheHas(cache, Key(expr, t, f, inverse))
    THEN Hit(cache, Key(expr, t, f, inverse))
    ELSE Miss(cache, Key(expr, t, f, inverse), Compute(oracle, expr, t, f, inverse))

(***************************************************************************)
(* sym.simplify(result): a collaborator.  Modelled by one normalisation it *)
(* performs on these results: an impulse is even, so its argument is       *)
(* written with the variable positive, DiracDelta(-t - s) = DiracDelta(t + *)
(* s); terms that become equal merge.                                      *)
(***************************************************************************)
SimplifyAtom(at) ==
    IF at.op = "DiracDelta" /\ at.sgn = -1 /\ at.n = 0
    THEN Delta(0, 1, -at.re, -at.im, at.pt)
    ELSE at

RECURSIVE SimplifyInto(_, _)
SimplifyInto(acc, R) ==
    IF DOMAIN R = {} THEN acc
    ELSE LET x == CHOOSE x \in DOMAIN R : TRUE
         IN  SimplifyInto(RAdd(acc, TR(R[x], x.cs, SimplifyAtom(x.at))),
                          [y \in (DOMAIN R) \ {x} |-> R[y]])

simplify(R) == SimplifyInto(RZeroSum, R)

\* (a return without the simplification)
Unsimplified(r) == r

\* line 268: return sym.simplify(result)
Simplified(r) == IF r.ret.ok THEN [r EXCEPT !.ret = Ok(simplify(r.ret.val))] ELSE r

\* inverse_fourier_transform(expr, f, t)
inverse_fourier_transform(cache, oracle, expr, f, t) ==
    Simplified(fourier_transform(cache, oracle, expr, t, f, TRUE))

(***************************************************************************)
(* Inputs.  The caller's time variable is "t", the frequency variable "f"; *)
(* "s" is a third variable, a a positive parameter.                        *)
(***************************************************************************)
MaxCalls == 3

MaxFactors == 3

a == Sym("a")

v(arg) == Undef(<<"v">>, arg)

y(arg) == Undef(<<"y">>, arg)

w_s == Undef(<<"w">>, Plain("s"))

One(S) == Term(ROne, BagOf(S))

\* The expressions passed to the calls of Spec.
Menu ==
    { <<>>,
      <<One({Cos("t", 1)})>>,
      <<One({v(Plain("t")), y(Plain("t"))})>>,
      <<One({Exp("t", 0, 1, 0), Step("t")})>>,
      <<One({a}), One({v(Arg("t", 1, 2, 1, FALSE))})>>,
      <<One({Exp("f", 0, 0, 1)}), One({a, Pole("f")})>> }

NoOutcome == Err("none", "", <<>>)

Oracles == [SolverClasses -> SolverAnswers]

(***************************************************************************)
(* Spec: a single thread calls fourier_transform and                       *)
(* inverse_fourier_transform, sharing fourier_cache.                       *)
(***************************************************************************)
Init ==
    /\ fourier_cache = <<>>
    /\ sympy \in Oracles
    /\ pc = "idle"
    /\ inp = [api |-> "none", expr |-> <<>>, t |-> "t", f |-> "f", inverse |-> FALSE]
    /\ out = NoOutcome
    /\ evals = 0
    /\ touched = [read |-> {}, written |-> {}]
    /\ ncalls = 0
    /\ th = <<>>

\* A call returns r: the state after it.
Returns(api, expr, inverse, r) ==
    /\ ncalls < MaxCalls
    /\ fourier_cache' = r.cache
    /\ inp' = [api |-> api, expr |-> expr, t |-> "t", f |-> "f", inverse |-> inverse]
    /\ out' = r.ret
    /\ evals' = r.n
    /\ touched' = [read |-> r.read, written |-> r.written]
    /\ ncalls' = ncalls + 1
    /\ UNCHANGED <<sympy, pc, th>>

\* fourier_transform(expr, "t", "f", inverse)
CallTransform(expr, inverse) ==
    Returns("fourier_transform", expr, inverse,
            fourier_transform(fourier_cache, sympy, expr, "t", "f", inverse))

\* inverse_fourier_transform(expr, "f", "t")
CallInverse(expr) ==
    Returns("inverse_fourier_transform", expr, TRUE,
            inverse_fourier_transform(fourier_cache, sympy, expr, "f", "t"))

Next ==
    \/ \E expr \in Menu, inverse \in BOOLEAN : CallTransform(expr, inverse)
    \/ \E expr \in Menu : CallInverse(expr)

Spec == Init /\ [][Next]_vars

(***************************************************************************)
(* SpecPure: one call of fourier_transform on an empty cache, the input    *)
(* drawn from products of at most MaxFactors factors that contain the      *)
(* domain variable ("t" forward, "f" inverse), times a variable-free       *)
(* factor, alone or next to a second term.                                 *)
(***************************************************************************)
SourceVar(inverse) == IF inverse THEN "f" ELSE "t"

TargetVar(inverse) == IF inverse THEN "t" ELSE "f"

\* The abstract functions of the time domain are v, y; of the frequency domain V, Y.
FuncName(inverse, n) == IF inverse THEN <<Upper(n)>> ELSE <<n>>

DepFactors(inverse) ==
    LET x == SourceVar(inverse)
        vv == FuncName(inverse, "v")
        yy == FuncName(inverse, "y")
    IN  { Var(x), Exp(x, 0, 0, 1), Exp(x, 0, 1, 0), Exp(x, 1, 0, 0), Cos(x, 1),
          Step(x), Pole(x),
          Undef(vv, Plain(x)), Undef(yy, Plain(x)),
          Undef(vv, Arg(x, 2, 1, 0, FALSE)), Undef(vv, Arg(x, 1, 1, 1, FALSE)),
          Undef(vv, Arg(x, 1, 2, 0, FALSE)), Undef(vv, Arg(x, 1, 2, 1, FALSE)),
          Undef(vv, Arg(x, 1, 1, 1, TRUE)), Recip(Undef(vv, Plain(x))) }

\* Canonical products: distinct factors, at most one exponential; and the squares.
Products(inverse) ==
    { BagOf(S) : S \in { S \in SUBSET DepFactors(inverse) :
                           /\ Cardinality(S) <= MaxFactors
                           /\ Cardinality({e \in S : e.k = "exp"}) <= 1 } }
    \cup { [e \in {Var(SourceVar(inverse))} |-> 2],
           [e \in {Undef(FuncName(inverse, "v"), Plain(SourceVar(inverse)))} |-> 2] }

ConstBags == {NoConst, BagOf({a}), BagOf({w_s})}

PureTerms(inverse) ==
    { Term(ROne, BagMul(c, b)) : c \in ConstBags, b \in Products(inverse) }

Companions(inverse) ==
    LET x == SourceVar(inverse)
    IN  { One({a}), One({Var(x)}), One({Undef(FuncName(inverse, "v"), Plain(x))}),
          One({Exp(x, 0, 0, 1)}), One({Step(x)}), One({w_s}) }

\* The terms with at most one factor that contains the domain variable.
SmallTerms(inverse) ==
    { u \in PureTerms(inverse) :
        Cardinality({e \in DOMAIN u.facs : FactorHas(e, SourceVar(inverse))}) <= 1 }

PureExprs(inverse) ==
    {<<>>}
    \cup { <<u>> : u \in PureTerms(inverse) }
    \cup UNION { UNION { {<<u, c>>, <<c, u>>} :
                           c \in { c \in Companions(inverse) : c.facs # u.facs } } :
                   u \in SmallTerms(inverse) }

InitPure ==
    /\ fourier_cache = <<>>
    /\ sympy \in Oracles
    /\ pc = "ready"
    /\ \E inverse \in BOOLEAN : \E expr \in PureExprs(inverse) :
           inp = [api |-> "fourier_transform", expr |-> expr, t |-> "t", f |-> "f",
                  inverse |-> inverse]
    /\ out = NoOutcome
    /\ evals = 0
    /\ touched = [read |-> {}, written |-> {}]
    /\ ncalls = 0
    /\ th = <<>>

\* The call returns r.
Done(r) ==
    /\ pc = "ready"
    /\ pc' = "done"
    /\ fourier_cache' = r.cache
    /\ out' = r.ret
    /\ evals' = r.n
    /\ touched' = [read |-> r.read, written |-> r.written]
    /\ ncalls' = ncalls + 1
    /\ UNCHANGED <<sympy, inp, th>>

Run == Done(fourier_transform(fourier_cache, sympy, inp.expr, inp.t, inp.f, inp.inverse))

NextPure == Run

SpecPure == InitPure /\ [][NextPure]_vars

(***************************************************************************)
(* SpecFunc: one call of fourier_transform on an empty cache, the input    *)
(* one term const * name(scale*x + shift) with x the domain variable: the  *)
(* scale an integer, or an integer times the parameter a.                  *)
(***************************************************************************)
MaxScale == 2

\* Names of one and of two characters, in either case.
FuncNames == { <<"v">>, <<"V">>, <<"v", "y">>, <<"V", "Y">> }

\* Arguments whose ordered terms are [scale*x, shift].
FuncArgs(x) ==
    { Arg(x, c, 1, sh, FALSE) : c \in 1..MaxScale, sh \in {-1, 0, 1} }
    \cup { Arg(x, -c, 1, sh, FALSE) : c \in 1..MaxScale, sh \in {-1, 0} }
    \cup { ArgPar(x, c, sh) : c \in 1..MaxScale, sh \in {0, 1} }

FuncTerms(inverse) ==
    { Term(q, BagMul(c, BagOf({Undef(n, g)}))) :
        q \in {ROne, Rat(-1, 2)}, c \in ConstBags, n \in FuncNames,
        g \in FuncArgs(SourceVar(inverse)) }

InitFunc ==
    /\ fourier_cache = <<>>
    /\ sympy \in Oracles
    /\ pc = "ready"
    /\ \E inverse \in BOOLEAN : \E term \in FuncTerms(inverse) :
           inp = [api |-> "fourier_transform", expr |-> <<term>>, t |-> "t", f |-> "f",
                  inverse |-> inverse]
    /\ out = NoOutcome
    /\ evals = 0
    /\ touched = [read |-> {}, written |-> {}]
    /\ ncalls = 0
    /\ th = <<>>

RunFunc == Done(fourier_transform(fourier_cache, sympy, inp.expr, inp.t, inp.f, inp.inverse))

NextFunc == RunFunc

SpecFunc == InitFunc /\ [][NextFunc]_vars

(***************************************************************************)
(* SpecConc: MaxThreads threads, each making one top-level call, share     *)
(* fourier_cache with no lock.  Dictionary operations are atomic; a call   *)
(* is the sequence of steps                                                *)
(*   lookup  (line 225)       key in fourier_cache                         *)
(*   fetch   (line 226)       return fourier_cache[key]                    *)
(*   compute (lines 228-250)  on locals only                               *)
(*   store   (line 252)       fourier_cache[key] = result                  *)
(*   return  (line 253, and line 268 for inverse_fourier_transform)        *)
(* and the steps of different threads interleave freely.                   *)
(***************************************************************************)
MaxThreads == 2

Threads == 1..MaxThreads

ConcMenu ==
    { <<One({Cos("t", 1)})>>,
      <<One({Exp("t", 0, 1, 0), Step("t")})>>,
      <<One({Exp("f", 0, 0, 1)}), One({a, Pole("f")})>> }

\* The calls a thread can make, with "t" and "f" as the caller's variables.
ConcCalls ==
    { [api |-> "fourier_transform", expr |-> e, inverse |-> b] :
        e \in ConcMenu, b \in BOOLEAN }
    \cup { [api |-> "inverse_fourier_transform", expr |-> e, inverse |-> TRUE] :
             e \in ConcMenu }

\* The frame of a call that has not started.
Frame(c) ==
    [pc |-> "lookup", api |-> c.api, expr |-> c.expr, inverse |-> c.inverse,
     result |-> NoOutcome, ret |-> NoOutcome, n |-> 0, missed |-> FALSE]

InitConc ==
    /\ fourier_cache = <<>>
    /\ sympy \in Oracles
    /\ pc = "threads"
    /\ inp = [api |-> "none", expr |-> <<>>, t |-> "t", f |-> "f", inverse |-> FALSE]
    /\ out = NoOutcome
    /\ evals = 0
    /\ touched = [read |-> {}, written |-> {}]
    /\ ncalls = 0
    /\ th \in [Threads -> {Frame(c) : c \in ConcCalls}]

ThreadKey(fr) == Key(fr.expr, "t", "f", fr.inverse)

\* What the caller receives: inverse_fourier_transform simplifies (line 268).
Received(fr, val) ==
    IF fr.api = "inverse_fourier_transform" THEN Ok(simplify(val)) ELSE Ok(val)

Unshared == <<sympy, pc, inp, out, evals, touched, ncalls>>

\* line 225
Lookup(i) ==
    /\ th[i].pc = "lookup"
    /\ th' = [th EXCEPT ![i].pc = IF CacheHas(fourier_cache, ThreadKey(th[i]))
                                  THEN "fetch" ELSE "compute",
                        ![i].missed = ~CacheHas(fourier_cache, ThreadKey(th[i]))]
    /\ UNCHANGED <<fourier_cache, Unshared>>

\* line 226
Fetch(i) ==
    /\ th[i].pc = "fetch"
    /\ th' = [th EXCEPT ![i].pc = "returned",
                        ![i].ret = Received(th[i], fourier_cache[ThreadKey(th[i])])]
    /\ UNCHANGED <<fourier_cache, Unshared>>

\* lines 228-250 computed c: a failure leaves the call here
Computed(i, c) ==
    /\ th' = [th EXCEPT ![i].pc = IF c.ret.ok THEN "store" ELSE "returned",
                        ![i].result = c.ret,
                        ![i].ret = IF c.ret.ok THEN NoOutcome ELSE c.ret,
                        ![i].n = c.n]
    /\ UNCHANGED <<fourier_cache, Unshared>>

ComputeStep(i) ==
    /\ th[i].pc = "compute"
    /\ Computed(i, Compute(sympy, th[i].expr, "t", "f", th[i].inverse))

\* line 252
Store(i) ==
    /\ th[i].pc = "store"
    /\ fourier_cache' = CachePut(fourier_cache, ThreadKey(th[i]), th[i].result.val)
    /\ th' = [th EXCEPT ![i].pc = "return"]
    /\ UNCHANGED Unshared

\* line 253
Return(i) ==
    /\ th[i].pc = "return"
    /\ th' = [th EXCEPT ![i].pc = "returned",
                        ![i].ret = Received(th[i], th[i].result.val)]
    /\ UNCHANGED <<fourier_cache, Unshared>>

NextConc ==
    \E i \in Threads :
        \/ Lookup(i)
        \/ Fetch(i)
        \/ ComputeStep(i)
        \/ Store(i)
        \/ Return(i)

SpecConc == InitConc /\ [][NextConc]_vars

(***************************************************************************)
(* Properties of one call (under SpecPure).                                *)
(***************************************************************************)
\* The additive terms the loop of the call recorded in i visits.
ExprTerms(i) == OrderedTerms(IF HasCos(i.expr) THEN RewriteAll(i.expr) ELSE i.expr)

\* The outcome of fourier_term on one of them.
TermOutcome(i, term) ==
    fourier_term(sympy, term, SourceVar(i.inverse), TargetVar(i.inverse), i.inverse)

\* The failure the top-level call documents, naming the original expression.
Unsupported(i) == Err("ValueError", "Could not compute Fourier transform for", i.expr)

\* C1: when the transform of any one term fails, the call fails with
\* 'Could not compute Fourier transform for <original expression>', nothing is
\* returned or cached, and no other kind of failure leaves the call.
C1_TermFailureIsWrapped ==
    pc = "done" =>
        /\ (\E k \in 1..Len(ExprTerms(inp)) : ~TermOutcome(inp, ExprTerms(inp)[k]).ok)
               => out = Unsupported(inp) /\ fourier_cache = <<>>
        /\ ~out.ok => out = Unsupported(inp)

\* The variable-free factors and the second summands linearity is tried with.
LinConsts ==
    { Term(Rat(2, 1), NoConst), Term(ROne, BagOf({a})), Term(Rat(-1, 1), BagOf({a})),
      Term(ROne, BagOf({w_s})) }

LinY(i) ==
    { <<>>, i.expr, <<One({a})>>, <<One({Var(SourceVar(i.inverse))})>>,
      <<One({Undef(FuncName(i.inverse, "y"), Plain(SourceVar(i.inverse)))})>>,
      <<One({Exp(SourceVar(i.inverse), 0, 0, 1)})>> }

Linear(i, X, c, yexpr, Y, L) ==
    (X.ok /\ Y.ok) => L = Ok(RPlus(RScale(c, X.val), Y.val))

\* C5: linearity.  With x the transformed input, y an expression and a a
\* variable-free factor: when x and y have transforms, a*x + y has the
\* transform a*F(x) + F(y).
C5_Linearity ==
    pc = "done" /\ ~inp.inverse =>
        \A c \in LinConsts : \A yexpr \in LinY(inp) :
            Linear(inp, out, c, yexpr,
                   Compute(sympy, yexpr, "t", "f", FALSE).ret,
                   Compute(sympy, ScaleExpr(c.facs, [k \in 1..Len(inp.expr) |->
                               Term(RatMul(c.coef, inp.expr[k].coef), inp.expr[k].facs)])
                               \o yexpr, "t", "f", FALSE).ret)

\* The term holds an abstract function whose argument has degree other than 1.
NonAffine(i, term) ==
    \E e \in DOMAIN term.facs :
        /\ e.k = "undef"
        /\ term.facs[e] = 1
        /\ e.arg.v = SourceVar(i.inverse)
        /\ e.arg.deg # 1

\* C6: a term holding an abstract function applied to an argument that is not
\* affine in the domain variable is rejected, and the call fails naming the
\* original input.
C6_NonAffineArgumentRejected ==
    pc = "done" =>
        \A k \in 1..Len(ExprTerms(inp)) :
            NonAffine(inp, ExprTerms(inp)[k]) =>
                /\ ~TermOutcome(inp, ExprTerms(inp)[k]).ok
                /\ ~out.ok
                /\ out.exc = "ValueError" => out = Unsupported(inp)

\* The convolution operands of a term: its abstract functions and the folded rest.
Operands(i, term) ==
    LET rest == factor_const(term, SourceVar(i.inverse)).rest
        funcs == {e \in DOMAIN rest : e.k = "undef" /\ rest[e] = 1}
    IN  [funcs |-> funcs, folded |-> Restrict(rest, (DOMAIN rest) \ funcs)]

NOperands(i, term) ==
    Cardinality(Operands(i, term).funcs)
        + (IF Operands(i, term).folded = NoConst THEN 0 ELSE 1)

IsConvolution(i, term) ==
    /\ Operands(i, term).funcs # {}
    /\ \A e \in Operands(i, term).funcs : e.arg = Plain(SourceVar(i.inverse))
    /\ ~BagHasUndef(Operands(i, term).folded)
    /\ NOperands(i, term) >= 2

\* the integration variables down the first integrand factor
RECURSIVE Spine(_)
Spine(at) == IF at.op = "Integral" THEN <<at.d>> \o Spine(at.l.at) ELSE <<>>

DummyName(i, m) ==
    IF m = 0 THEN (IF i.inverse THEN "tau" ELSE "nu")
    ELSE (IF i.inverse THEN "tau_" ELSE "nu_") \o ToString(m)

ConvolutionShape(i, term, r) ==
    LET k == NOperands(i, term)
        const == factor_const(term, SourceVar(i.inverse)).const
        ops == Operands(i, term)
    IN  IF r.ok
        THEN /\ r.val.c = const.coef
             /\ r.val.cs = const.facs
             /\ NIntegrals(r.val.at) = k - 1
             /\ Len(Spine(r.val.at)) = k - 1
             /\ \A m \in 1..(k - 1) : Spine(r.val.at)[m] = DummyName(i, k - 1 - m)
             /\ \A m, n \in 1..(k - 1) :
                    m # n => Spine(r.val.at)[m] # Spine(r.val.at)[n]
             /\ (k = 2 /\ ops.folded = NoConst) =>
                    \E e1, e2 \in ops.funcs :
                        /\ NameRank(e1.name) < NameRank(e2.name)
                        /\ r.val.at.l =
                               TR(ROne, NoConst,
                                  Func(Rename(e1.name, i.inverse), [c |-> 1, tpow |-> 0, par |-> FALSE], 0,
                                       [v |-> TargetVar(i.inverse),
                                        sub |-> <<DummyName(i, 0)>>]))
                        /\ r.val.at.r =
                               TR(ROne, NoConst,
                                  Func(Rename(e2.name, i.inverse), [c |-> 1, tpow |-> 0, par |-> FALSE], 0,
                                       [v |-> DummyName(i, 0), sub |-> <<>>]))
        ELSE /\ ops.folded # NoConst
             /\ ~TermOutcome(i, Term(ROne, ops.folded)).ok

\* C7: convolution insertion.  A term whose factors with the domain variable
\* are k >= 2 operands (abstract functions of exactly the variable, plus the
\* product of the remaining factors as one folded operand) transforms to
\* const times k-1 integrals, nested in the first integrand factor, over the
\* dummies nu, nu_1, ... (tau, tau_1, ... inverse), pairwise distinct; it
\* fails only when the transform of the folded operand fails.  For two
\* functions the integrand is the first renamed function at target - dummy
\* times the second at dummy.
C7_ConvolutionInsertion ==
    pc = "done" =>
        \A k \in 1..Len(ExprTerms(inp)) :
            IsConvolution(inp, ExprTerms(inp)[k]) =>
                /\ ConvolutionShape(inp, ExprTerms(inp)[k],
                                    TermOutcome(inp, ExprTerms(inp)[k]))
                /\ (Len(ExprTerms(inp)) = 1 /\ out.ok) =>
                       out.val = RAdd(RZeroSum, TermOutcome(inp, ExprTerms(inp)[k]).val)

\* A product of three operands was transformed into two nested integrals.
C7_Witness ==
    /\ pc = "done"
    /\ out.ok
    /\ Len(inp.expr) = 1
    /\ IsConvolution(inp, inp.expr[1])
    /\ NOperands(inp, inp.expr[1]) = 3
    /\ \E core \in DOMAIN out.val : NIntegrals(core.at) = 2

\* C8: a term without the domain variable transforms to term * impulse(target),
\* whatever else it contains, in both directions.
C8_ConstantToImpulse ==
    pc = "done" =>
        /\ \A k \in 1..Len(ExprTerms(inp)) :
               ~BagHas(ExprTerms(inp)[k].facs, SourceVar(inp.inverse)) =>
                   TermOutcome(inp, ExprTerms(inp)[k])
                       = Ok(TR(ExprTerms(inp)[k].coef, ExprTerms(inp)[k].facs,
                               Delta(0, 1, 0, 0, Pt(TargetVar(inp.inverse)))))
        /\ (Len(inp.expr) = 1 /\ ~BagHas(inp.expr[1].facs, SourceVar(inp.inverse))) =>
               out = Ok(RAdd(RZeroSum,
                             TR(inp.expr[1].coef, inp.expr[1].facs,
                                Delta(0, 1, 0, 0, Pt(TargetVar(inp.inverse))))))

\* The term has no abstract function and holds exp(linear argument with an
\* imaginary rate) of the domain variable.
HasShiftExp(i, term) ==
    /\ ~BagHasUndef(term.facs)
    /\ \E e \in DOMAIN term.facs :
           e.k = "exp" /\ e.v = SourceVar(i.inverse) /\ e.q = 0 /\ e.im # 0

\* The term holds a factor other than an exponential that depends on the
\* domain variable.
HasOtherDep(i, term) ==
    \E x \in DOMAIN term.facs : x.k # "exp" /\ FactorHas(x, SourceVar(i.inverse))

\* C11: the shifted-impulse rule fires only for const * exp(linear argument
\* with an imaginary rate).  A term with such an exponential and another
\* factor that depends on the domain variable is not answered with an
\* impulse: it gets the general solver's outcome.
C11_ShiftedImpulseOnlyForPureExp ==
    pc = "done" =>
        \A k \in 1..Len(ExprTerms(inp)) :
            (HasShiftExp(inp, ExprTerms(inp)[k]) /\ HasOtherDep(inp, ExprTerms(inp)[k])) =>
                /\ TermOutcome(inp, ExprTerms(inp)[k]).ok =>
                       TermOutcome(inp, ExprTerms(inp)[k]).val.at.op # "DiracDelta"
                /\ TermOutcome(inp, ExprTerms(inp)[k])
                       = fourier_sympy(sympy, ExprTerms(inp)[k], SourceVar(inp.inverse),
                                       IF inp.inverse THEN -1 ELSE 1,
                                       TargetVar(inp.inverse))

\* No pattern rule of fourier_term takes the term: it has no abstract
\* function, depends on the domain variable, and is neither t, t**2 or the
\* pole 1/(a + I*2*pi*t) times a constant, nor holds an exponential with an
\* imaginary-rate linear argument.
NoRule(i, term) ==
    /\ ~BagHasUndef(term.facs)
    /\ BagHas(term.facs, SourceVar(i.inverse))
    /\ factor_const(term, SourceVar(i.inverse)).rest
           \notin { [x \in {Var(SourceVar(i.inverse))} |-> 1],
                    [x \in {Var(SourceVar(i.inverse))} |-> 2],
                    [x \in {Pole(SourceVar(i.inverse))} |-> 1] }
    /\ \A e \in DOMAIN term.facs : e.k = "exp" => (e.q # 0 \/ e.im = 0)

\* What the solver answers for the term.
SolverAnswer(i, term) ==
    sympy[IF \E e \in DOMAIN term.facs : e.k = "exp" THEN "exp" ELSE "alg"]

FallbackOutcome(i, term, r) ==
    IF SolverAnswer(i, term) = "closed"
    THEN r = Ok(TR(term.coef,
                   factor_const(term, SourceVar(i.inverse)).const.facs,
                   Closed(factor_const(term, SourceVar(i.inverse)).rest,
                          IF i.inverse THEN -1 ELSE 1,
                          Pt(TargetVar(i.inverse)))))
    ELSE /\ ~r.ok
         /\ r.exc = "ValueError"
         /\ r.of = <<term>>

\* C12: general-solver fallback.  A term no pattern rule takes gets the
\* solver's value for the target variable, negated exactly when the direction
\* is inverse; an unevaluated transform, or zero, makes the term (and the
\* call) fail.
C12_SolverFallback ==
    pc = "done" =>
        \A k \in 1..Len(ExprTerms(inp)) :
            NoRule(inp, ExprTerms(inp)[k]) =>
                FallbackOutcome(inp, ExprTerms(inp)[k],
                                TermOutcome(inp, ExprTerms(inp)[k]))

\* An inverse call on one term without a rule returned the solver's value.
C12_Witness ==
    /\ pc = "done"
    /\ inp.inverse
    /\ Len(inp.expr) = 1
    /\ NoRule(inp, inp.expr[1])
    /\ out.ok
    /\ \E core \in DOMAIN out.val : core.at.op = "Closed" /\ core.at.sgn = -1

(***************************************************************************)
(* Properties of one abstract-function application (under SpecFunc).       *)
(***************************************************************************)
\* The function application of the term of the call recorded in i.
TheFunc(i) == CHOOSE e \in DOMAIN i.expr[1].facs : e.k = "undef" /\ e.arg.v = SourceVar(i.inverse)

\* The name with its first character capitalized (lowercased when inverse).
DualName(name, inverse) ==
    [k \in 1..Len(name) |->
        IF k = 1 THEN (IF inverse THEN Lower(name[k]) ELSE Upper(name[k])) ELSE name[k]]

\* const * Name(target/scale)/|scale| [* exp(2j*pi*target*shift/scale)], the
\* shift negated for the inverse direction.
DualFunc(i, e) ==
    TR(i.expr[1].coef,
       Restrict(i.expr[1].facs, (DOMAIN i.expr[1].facs) \ {e}),
       Func(DualName(e.name, i.inverse),
            [c |-> e.arg.scale, tpow |-> 0, par |-> e.arg.par],
            IF i.inverse THEN -e.arg.shift ELSE e.arg.shift,
            Pt(TargetVar(i.inverse))))

\* C13: single abstract-function application.  The transform of
\* const * v(scale*t + shift) is const times the function renamed in its first
\* character, at target/scale, over |scale|, with the phase factor of the
\* shift (negated when inverse) exactly when the shift is not 0.
C13_SingleFunction ==
    pc = "done" => out = Ok(RAdd(RZeroSum, DualFunc(inp, TheFunc(inp))))

(***************************************************************************)
(* Properties of the cache (under Spec).                                   *)
(***************************************************************************)
\* The cache key of the call recorded in i.
KeyOf(i) == [expr |-> i.expr, t |-> i.t, f |-> i.f, inverse |-> i.inverse]

\* C2: idempotent caching.  A call of fourier_transform that succeeds leaves
\* its result in the cache under (expr, t, f, inverse), and a call whose key is
\* already in the cache returns the cached result with no rule evaluation.
C2_IdempotentCaching ==
    [][inp'.api = "fourier_transform" =>
          /\ out'.ok => /\ KeyOf(inp') \in DOMAIN fourier_cache'
                        /\ fourier_cache'[KeyOf(inp')] = out'.val
          /\ KeyOf(inp') \in DOMAIN fourier_cache =>
                 /\ evals' = 0
                 /\ out' = Ok(fourier_cache[KeyOf(inp')])]_vars

\* A second call with the same key was answered from the cache.
C2_Witness ==
    /\ ncalls >= 2
    /\ inp.api = "fourier_transform"
    /\ evals = 0
    /\ out = Ok(fourier_cache[KeyOf(inp)])
    /\ DOMAIN out.val # {}

\* C3: the cache is not observable.  Whatever the cache holds, every call has
\* the outcome it has with an empty cache.
C3_CacheNotObservable ==
    \A expr \in Menu :
        /\ \A inverse \in BOOLEAN :
               fourier_transform(fourier_cache, sympy, expr, "t", "f", inverse).ret
                   = fourier_transform(<<>>, sympy, expr, "t", "f", inverse).ret
        /\ inverse_fourier_transform(fourier_cache, sympy, expr, "f", "t").ret
               = inverse_fourier_transform(<<>>, sympy, expr, "f", "t").ret

\* A call was answered from a cache holding forward and inverse entries.
C3_Witness ==
    /\ evals = 0
    /\ ncalls >= 3
    /\ out.ok
    /\ \E k1, k2 \in DOMAIN fourier_cache : k1.inverse /\ ~k2.inverse

\* C4: the cache only grows; an entry is never removed or changed.
C4_CacheMonotone ==
    [][\A k \in DOMAIN fourier_cache :
           k \in DOMAIN fourier_cache' /\ fourier_cache'[k] = fourier_cache[k]]_vars

\* A call stored an entry next to earlier ones.
C4_Witness ==
    /\ Cardinality(DOMAIN fourier_cache) >= 2
    /\ touched.written # {}

\* C9: inverse_fourier_transform(expr, f, t) returns simplify(R), R being the
\* result of the computation for (expr, t, f, inverse=True); the cache holds R
\* itself; only keys with the inverse flag are read or written.
C9_InverseIsSimplifiedForward ==
    inp.api = "inverse_fourier_transform" =>
        /\ Compute(sympy, inp.expr, "t", "f", TRUE).ret.ok =>
               /\ out = Ok(simplify(Compute(sympy, inp.expr, "t", "f", TRUE).ret.val))
               /\ Key(inp.expr, "t", "f", TRUE) \in DOMAIN fourier_cache
               /\ fourier_cache[Key(inp.expr, "t", "f", TRUE)]
                      = Compute(sympy, inp.expr, "t", "f", TRUE).ret.val
        /\ ~Compute(sympy, inp.expr, "t", "f", TRUE).ret.ok =>
               out = Compute(sympy, inp.expr, "t", "f", TRUE).ret
        /\ \A k \in touched.read \cup touched.written : k.inverse

\* An inverse call answered from the cache, where simplify changes R.
C9_Witness ==
    /\ inp.api = "inverse_fourier_transform"
    /\ evals = 0
    /\ out.ok
    /\ out.val # fourier_cache[KeyOf(inp)]

\* The same call made again on cache fails the same way, after evaluating
\* rules again.
FailsAgain(r, failure) == r.ret = failure /\ r.n >= 1

\* C14: a call that fails leaves the cache as it was: nothing is added under
\* its key and no entry changes, so the same call made again evaluates the
\* rules again and fails again.
C14_FailureLeavesCache ==
    [][(ncalls' = ncalls + 1 /\ ~out'.ok) =>
           /\ fourier_cache' = fourier_cache
           /\ KeyOf(inp') \notin DOMAIN fourier_cache'
           /\ evals' >= 1
           /\ FailsAgain(fourier_transform(fourier_cache', sympy, inp'.expr, inp'.t,
                                           inp'.f, inp'.inverse), out')]_vars

\* A call failed after earlier calls had filled the cache.
C14_Witness ==
    /\ ncalls >= 2
    /\ ~out.ok
    /\ evals >= 1
    /\ fourier_cache # <<>>
    /\ KeyOf(inp) \notin DOMAIN fourier_cache

(***************************************************************************)
(* Properties of concurrent calls (under SpecConc).                        *)
(***************************************************************************)
AllReturned == \A i \in Threads : th[i].pc = "returned"

\* The whole call of frame fr, run alone on cache.
CallAlone(cache, fr) ==
    IF fr.api = "inverse_fourier_transform"
    THEN inverse_fourier_transform(cache, sympy, fr.expr, "f", "t")
    ELSE fourier_transform(cache, sympy, fr.expr, "t", "f", fr.inverse)

\* The orders in which the threads' calls can run one after the other.
Orders == { o \in [Threads -> Threads] : \A i, j \in Threads : o[i] = o[j] => i = j }

\* Running the calls one after the other from position k of order o, on
\* cache, gives every thread what it received and ends with the cache
\* content reached.
RECURSIVE SerialFrom(_, _, _)
RECURSIVE SerialNext(_, _, _)
SerialNext(o, k, r) ==
    /\ th[o[k]].ret = r.ret
    /\ SerialFrom(o, k + 1, r.cache)

SerialFrom(o, k, cache) ==
    IF k > MaxThreads THEN fourier_cache = cache
    ELSE SerialNext(o, k, CallAlone(cache, th[o[k]]))

Serializable == \E o \in Orders : SerialFrom(o, 1, <<>>)

\* Two threads missed the same key and both evaluated the rules for it.
Raced ==
    \E i, j \in Threads :
        /\ i # j
        /\ [expr |-> th[i].expr, inverse |-> th[i].inverse]
               = [expr |-> th[j].expr, inverse |-> th[j].inverse]
        /\ th[i].missed /\ th[j].missed
        /\ th[i].result.ok /\ th[j].result.ok

\* C10: serializability.  Lookup and insert are separate steps, so two calls can
\* both miss the same key and both compute and insert it, but whenever all
\* calls have returned, what each received and the cache content are those
\* of the same calls run one after the other in some order.
C10_InterleavingsAreSerializable == AllReturned => Serializable

\* Two calls raced on one key, both stored, and the results were received.
C10_Witness ==
    /\ AllReturned
    /\ Raced
    /\ \A i \in Threads : th[i].ret.ok
    /\ fourier_cache # <<>>

\* C10, unsafe reading: the interleaving in which two calls both look up before
\* either inserts ends with a received result or a cache content that no
\* serial order of the calls produces.
C10_RaceIsNotSerializable == (AllReturned /\ Raced) => ~Serializable

====
